---- MODULE Spec2Model ----
(***************************************************************************)
(* Nearest-neighbour reimbursement predictor.                              *)
(*                                                                         *)
(* Two programs are modelled: calculate_reimbursement_conservative.py      *)
(* (ensemble KNN with adaptive k and smoothing) and                        *)
(* calculate_reimbursement_fast.py (fixed k = 3).  A behaviour is one      *)
(* Python process: the module body runs top to bottom (load the corpus,    *)
(* compute the statistics, compute the density map, the __main__ block),   *)
(* then main() and/or direct calls of the predictor.                       *)
(*                                                                         *)
(* Python floats are modelled in fixed point:                              *)
(*   raw features        hundredths        (FS = 100)                      *)
(*   std                 ten-thousandths   (FS * FS)                       *)
(*   normalized values   hundredths                                       *)
(*   distances           thousandths       (DS = 1000)                     *)
(*   outcomes            thousandths of a currency unit (PS = 1000)        *)
(***************************************************************************)
EXTENDS Integers, Sequences, FiniteSets, TLC

VARIABLES
    variant,        \* which program runs: "conservative" or "fast"
    mode,           \* "script" (python3 file.py args) or "import" (import file)
    corpusFile,     \* public_cases.json: [status, cases], status "missing", "malformed" or "ok"
    argv,           \* sys.argv[1:], each argument a sequence of characters
    pc,             \* position of the process
    TRAINING_DATA,  \* module global
    STATS,          \* module global
    DENSITY_MAP,    \* module global (conservative)
    local_density,  \* module global, bound only by the __main__ block (conservative)
    stdout,         \* printed lines
    stderr,         \* printed warnings
    exc,            \* "none", an exception name, or "SystemExit1"
    call,           \* record of the most recent predictor call
    calls,          \* the predictor calls made so far, in order
    budget          \* direct calls the caller of the module still makes

vars == <<variant, mode, corpusFile, argv, pc, TRAINING_DATA, STATS, DENSITY_MAP,
          local_density, stdout, stderr, exc, call, calls, budget>>

----------------------------------------------------------------------------
(* Fixed-point scales *)

FS == 10 * 10          \* features: hundredths
DS == 10 * 10 * 10     \* distances: thousandths
PS == 10 * 10 * 10     \* outcomes and predictions: thousandths

\* a list comprehension: the function made into the sequence of its values
List(f) == f \o <<>>

RECURSIVE SumSeq(_)
SumSeq(s) == IF s = <<>> THEN 0 ELSE Head(s) + SumSeq(Tail(s))

Min(a, b) == IF a <= b THEN a ELSE b
Max(a, b) == IF a >= b THEN a ELSE b

\* Newton's iteration from x >= sqrt(n) down to floor(sqrt(n))
RECURSIVE IsqrtFrom(_, _)
IsqrtFrom(n, x) ==
    LET y == (x + n \div x) \div 2
    IN IF y >= x THEN x ELSE IsqrtFrom(n, y)

\* math.sqrt on a non-negative fixed-point number: floor of the square root
Isqrt(n) ==
    IF n = 0 THEN 0
    ELSE IsqrtFrom(n, IF n < 100 THEN 10
                      ELSE IF n < 10000 THEN 100
                      ELSE IF n < 1000000 THEN 1000
                      ELSE IF n < 100000000 THEN 10000
                      ELSE 46341)

\* sqrt of (x hundredths), in hundredths: sqrt(x/100)*100 = sqrt(100*x)
SqrtF(x) == Isqrt(x * FS)

RECURSIVE Halvings(_)
Halvings(y) == IF y >= 2 * DS THEN 1 + Halvings(y \div 2) ELSE 0

RECURSIVE Mantissa(_)
Mantissa(y) == IF y >= 2 * DS THEN Mantissa(y \div 2) ELSE y

\* natural logarithm of (y thousandths), y >= 1000, in thousandths:
\* ln(2^k * m) = k*ln 2 + 2*(t + t^3/3 + t^5/5), t = (m-1)/(m+1)
LnT(y) ==
    LET k == Halvings(y)
        m == Mantissa(y)
        t == ((m - DS) * DS) \div (m + DS)
        t3 == (t * t * t) \div (DS * DS)
        t5 == (t3 * t * t) \div (DS * DS)
    IN k * 693 + 2 * (t + t3 \div 3 + t5 \div 5)

\* math.log1p of (x hundredths), in hundredths
Log1pF(x) == LnT((FS + x) * 10) \div 10

----------------------------------------------------------------------------
(* Feature derivation: load_training_data / the query dict *)

FEATURES == <<"days", "miles", "receipts", "sqrt_receipts", "log_receipts",
              "miles_per_day", "receipts_per_day">>

\* The feature dict of (days, miles, receipts); days is an integer count,
\* miles and receipts are hundredths.  'days' is kept as the integer and
\* scaled where it is used as a float feature.
Derive(days, miles, receipts) ==
    [days |-> days,
     miles |-> miles,
     receipts |-> receipts,
     sqrt_receipts |-> SqrtF(receipts),
     log_receipts |-> Log1pF(receipts),
     miles_per_day |-> IF days > 0 THEN miles \div days ELSE 0,
     receipts_per_day |-> IF days > 0 THEN receipts \div days ELSE 0]

\* case[feat] as a fixed-point float
Feat(c, f) == IF f = "days" THEN c.days * FS ELSE c[f]

----------------------------------------------------------------------------
(* Module body: load_training_data, compute_stats, compute_density_map *)

\* load_training_data on a readable, well-formed file: one feature dict per record
ProcessedData(file) ==
  List(
    [i \in 1..Len(file) |->
        [days |-> file[i].days,
         miles |-> file[i].miles,
         receipts |-> file[i].receipts,
         sqrt_receipts |-> SqrtF(file[i].receipts),
         log_receipts |-> Log1pF(file[i].receipts),
         miles_per_day |-> IF file[i].days > 0 THEN file[i].miles \div file[i].days ELSE 0,
         receipts_per_day |-> IF file[i].days > 0 THEN file[i].receipts \div file[i].days ELSE 0,
         output |-> file[i].output]])

\* open() raises on a missing file, json.load on a malformed one, and
\* math.sqrt raises ValueError on a negative number
LoadRaises(file) ==
    \/ file.status \in {"missing", "malformed"}
    \/ \E i \in 1..Len(file.cases) : file.cases[i].receipts < 0

LoadException(file) ==
    IF file.status = "missing" THEN "FileNotFoundError"
    ELSE IF file.status = "malformed" THEN "JSONDecodeError"
    ELSE "ValueError"

\* sqrt(sumsq / n) in ten-thousandths, sumsq in hundredths squared
\* Python floats are binary floating point.  The sums of compute_stats are
\* followed in floats of SignificandBits bits, rounded to nearest, ties to even:
\* <<m, e>> is m * 2^e with 2^(SignificandBits-1) <= m < 2^SignificandBits,
\* <<0, 0>> is 0.0.  Training values are non-negative in every enumerated file.
SignificandBits == 13

RECURSIVE Pow2(_)
Pow2(k) == IF k = 0 THEN 1 ELSE 2 * Pow2(k - 1)

\* the float nearest to (num / den) * 2^e
RECURSIVE FlRound(_, _, _)
FlRound(num, den, e) ==
    IF num = 0 THEN <<0, 0>>
    ELSE IF num >= den * Pow2(SignificandBits) THEN FlRound(num, 2 * den, e + 1)
    ELSE IF num < den * Pow2(SignificandBits - 1) THEN FlRound(2 * num, den, e - 1)
    ELSE LET m == num \div den
             r == num % den
             up == 2 * r > den \/ (2 * r = den /\ m % 2 = 1)
             m2 == IF up THEN m + 1 ELSE m
         IN IF m2 = Pow2(SignificandBits) THEN <<Pow2(SignificandBits - 1), e + 1>>
            ELSE <<m2, e>>

\* the float of a value given in hundredths
Fl(x) == FlRound(x, FS, 0)

\* a + b
FlAdd(a, b) ==
    IF a[1] = 0 THEN b
    ELSE IF b[1] = 0 THEN a
    ELSE LET hi == IF a[2] >= b[2] THEN a ELSE b
             lo == IF a[2] >= b[2] THEN b ELSE a
             d == hi[2] - lo[2]
         IN IF d > SignificandBits + 1 THEN hi
            ELSE FlRound(hi[1] * Pow2(d) + lo[1], 1, lo[2])

\* sum(values), accumulated from the left
RECURSIVE FlSum(_, _)
FlSum(acc, values) ==
    IF values = <<>> THEN acc ELSE FlSum(FlAdd(acc, Fl(Head(values))), Tail(values))

\* mean = sum(values) / len(values)
FlMean(values) == LET total == FlSum(<<0, 0>>, values)
                  IN FlRound(total[1], Len(values), total[2])

\* variance > 0: some (x - mean) ** 2 is positive, that is some x is not the
\* float mean; sumsq is the sum of the squares at the resolution of the model
VariancePositive(values, sumsq) ==
    \/ sumsq > 0
    \/ LET mean == FlMean(values)
       IN \E i \in 1..Len(values) : Fl(values[i]) # mean

\* math.sqrt(variance); 0 stands for a positive std below the resolution (of
\* the order of 1e-17: the rounding error of the mean of equal values)
SqrtVariance(sumsq, n) ==
    IF sumsq < 200000 THEN Isqrt((sumsq * FS * FS) \div n)
                      ELSE FS * Isqrt(sumsq \div n)

\* std = math.sqrt(variance) if variance > 0 else 1.0
StdOrOne(positive, sumsq, n) == IF positive THEN SqrtVariance(sumsq, n) ELSE FS * FS

\* std = max(std, 0.1), conservative only
StdFloor(v, std) == IF v = "conservative" THEN Max(std, (FS * FS) \div 10) ELSE std

\* {'mean': mean, 'std': std} of one feature; mean in hundredths, std in ten-thousandths
FeatureStats(v, data, feat) ==
    LET values == List([i \in 1..Len(data) |-> Feat(data[i], feat)])
        n == Len(values)
        mean == SumSeq(values) \div n
        sumsq == SumSeq(List([i \in 1..n |-> (values[i] - mean) * (values[i] - mean)]))
    IN [mean |-> mean,
        std |-> StdFloor(v, StdOrOne(VariancePositive(values, sumsq), sumsq, n))]

\* statistics that skip the computation for an empty corpus instead of dividing
compute_stats_unguarded(v, data) ==
    [raised |-> FALSE,
     stats |-> IF Len(data) = 0 THEN <<>>
               ELSE [f \in {FEATURES[i] : i \in 1..Len(FEATURES)} |-> FeatureStats(v, data, f)]]

\* compute_stats: sum(values) / len(values) raises ZeroDivisionError on an
\* empty TRAINING_DATA; otherwise the stats dict
compute_stats(v, data) ==
    IF Len(data) = 0
    THEN [raised |-> TRUE, stats |-> <<>>]
    ELSE [raised |-> FALSE,
          stats |-> [f \in {FEATURES[j] : j \in 1..Len(FEATURES)} |-> FeatureStats(v, data, f)]]

\* int(x / w) * w for a float x in hundredths and a bucket width w in whole units:
\* int() truncates toward zero
Bucket(x, w) ==
    IF x >= 0 THEN (x \div (w * FS)) * w ELSE -(((-x) \div (w * FS)) * w)

BucketKey(days, miles, receipts) == <<days, Bucket(miles, 100), Bucket(receipts, 200)>>

\* compute_density_map: bucket key -> number of training cases in the bucket
compute_density_map(data) ==
    LET keys == {BucketKey(data[i].days, data[i].miles, data[i].receipts) : i \in 1..Len(data)}
    IN [key \in keys |->
          Cardinality({i \in 1..Len(data) :
              BucketKey(data[i].days, data[i].miles, data[i].receipts) = key})]

\* DENSITY_MAP.get(key, 0)
DensityGet(key) == IF key \in DOMAIN DENSITY_MAP THEN DENSITY_MAP[key] ELSE 0

\* the index of a dictionary that enters every key it is asked for, with count 0
DensityWithLookedUpKeys(keys) ==
    [key \in (DOMAIN DENSITY_MAP) \cup keys |-> DensityGet(key)]

\* DENSITY_MAP after DENSITY_MAP.get(key, 0) for the keys: get() enters nothing,
\* and compute_density_map returned a plain dict
DensityAfterLookup(keys) == DENSITY_MAP

----------------------------------------------------------------------------
(* normalize_value, euclidean_distance *)

\* (value - mean) / std, in hundredths
\* STATS[feat_name]['std'] is positive but below the resolution (fast variant)
TinyStd(feat_name) == STATS[feat_name].std = 0

\* (value - mean) / std.  Over a tiny std the quotient is of the order of 1e16:
\* it is kept as its numerator and counted on the scale of HugeDistance.
normalize_value(value, feat_name) ==
    IF TinyStd(feat_name) THEN value - STATS[feat_name].mean
    ELSE ((value - STATS[feat_name].mean) * FS * FS) \div STATS[feat_name].std

\* feature weights in tenths; the fast variant weighs every feature 1
weights(v) ==
    IF v = "conservative"
    THEN [days |-> 10, miles |-> 10, receipts |-> 12, sqrt_receipts |-> 15,
          log_receipts |-> 13, miles_per_day |-> 8, receipts_per_day |-> 8]
    ELSE [days |-> 10, miles |-> 10, receipts |-> 10, sqrt_receipts |-> 10,
          log_receipts |-> 10, miles_per_day |-> 10, receipts_per_day |-> 10]

\* the term with the difference of the raw values normalized, instead of the
\* difference of the normalized values
SqTermOfNormalizedDifference(v, case1, case2, feat) ==
    LET diff == normalize_value(Feat(case1, feat) - Feat(case2, feat), feat)
    IN weights(v)[feat] * (diff * diff)

\* one term of distance_sq: weights[feat] * (diff * diff), in units of 1e-5
SqTerm(v, case1, case2, feat) ==
    LET diff == normalize_value(Feat(case1, feat), feat) - normalize_value(Feat(case2, feat), feat)
    IN weights(v)[feat] * (diff * diff)

\* distance_sq is followed in two parts: the terms of the features with a tiny
\* std, which are of the order of 1e32 when they are not 0, and the other terms,
\* which a float sum with such a term absorbs
distance_sq_huge(v, case1, case2) ==
    SumSeq(List([j \in 1..Len(FEATURES) |->
        IF TinyStd(FEATURES[j]) THEN SqTerm(v, case1, case2, FEATURES[j]) ELSE 0]))

distance_sq(v, case1, case2) ==
    SumSeq(List([j \in 1..Len(FEATURES) |->
        IF TinyStd(FEATURES[j]) THEN 0 ELSE SqTerm(v, case1, case2, FEATURES[j])]))

\* the distances of the order of 1e16 lie above HugeDistance, in their order
HugeDistance == DS * DS

\* math.sqrt(distance_sq), in thousandths
euclidean_distance(v, case1, case2) ==
    IF distance_sq_huge(v, case1, case2) > 0
    THEN HugeDistance + Isqrt(distance_sq_huge(v, case1, case2))
    ELSE Isqrt(10 * distance_sq(v, case1, case2))

----------------------------------------------------------------------------
(* get_adaptive_k *)

\* local_density = DENSITY_MAP.get(key, 0) of the bucket of (days, miles, receipts)
LocalDensityOf(days, miles, receipts) == DensityGet(BucketKey(days, miles, receipts))

\* nearby_key of the three nested loops over d_offset, m_offset, r_offset
NearbyKeys(key) ==
    List([a \in 1..27 |->
          <<key[1] + (((a - 1) \div 9) - 1),
            key[2] + ((((a - 1) \div 3) % 3) - 1) * 100,
            key[3] + (((a - 1) % 3) - 1) * 200>>])

\* nearby_density: the 27 buckets around the bucket of (days, miles, receipts)
NearbyDensityOf(days, miles, receipts) ==
    LET nearby == NearbyKeys(BucketKey(days, miles, receipts))
    IN SumSeq(List([a \in 1..27 |-> DensityGet(nearby[a])]))

\* the chain with the returns of its two middle branches exchanged
AdaptiveKExchanged(local, nearby) ==
    IF local >= 5 THEN 3
    ELSE IF nearby >= 20 THEN 7
    ELSE IF nearby >= 10 THEN 5
    ELSE 10

\* the if/elif chain on the two densities
AdaptiveKOf(local, nearby) ==
    IF local >= 5 THEN 3
    ELSE IF nearby >= 20 THEN 5
    ELSE IF nearby >= 10 THEN 7
    ELSE 10

\* the chain asked about the neighbourhood where the query's own bucket is meant
get_adaptive_k_of_neighbourhood(days, miles, receipts) ==
    AdaptiveKOf(NearbyDensityOf(days, miles, receipts), NearbyDensityOf(days, miles, receipts))

get_adaptive_k(days, miles, receipts) ==
    AdaptiveKOf(LocalDensityOf(days, miles, receipts), NearbyDensityOf(days, miles, receipts))

\* the keys get_adaptive_k looks up
LookedUpKeys(days, miles, receipts) ==
    LET key == BucketKey(days, miles, receipts)
    IN {key} \cup {NearbyKeys(key)[a] : a \in 1..27}

----------------------------------------------------------------------------
(* knn_predict_conservative, knn_predict *)

\* an insertion that puts a case in front of the cases at its own distance
RECURSIVE InsertBeforeTies(_, _)
InsertBeforeTies(s, x) ==
    IF s = <<>> THEN <<x>>
    ELSE IF x[1] <= Head(s)[1] THEN <<x>> \o s
    ELSE <<Head(s)>> \o InsertBeforeTies(Tail(s), x)

\* list.sort(key=lambda x: x[0]) is stable: x goes after every pair whose
\* distance is <= its own
RECURSIVE InsertByDistance(_, _)
InsertByDistance(s, x) ==
    IF s = <<>> THEN <<x>>
    ELSE IF x[1] < Head(s)[1] THEN <<x>> \o s
    ELSE <<Head(s)>> \o InsertByDistance(Tail(s), x)

\* a sort that takes the pairs from the back of the list, so that pairs with
\* equal distance come out in reverse corpus order
RECURSIVE SortFromTheBack(_)
SortFromTheBack(s) ==
    IF s = <<>> THEN <<>>
    ELSE InsertByDistance(SortFromTheBack(Tail(s)), Head(s))

RECURSIVE SortByDistance(_)
SortByDistance(s) ==
    IF s = <<>> THEN <<>>
    ELSE InsertByDistance(SortByDistance(SubSeq(s, 1, Len(s) - 1)), s[Len(s)])

\* the sorted distances paired with the outputs in corpus order
DistancesBesideCorpusOrder(v, query) ==
    LET sorted == SortByDistance(List([i \in 1..Len(TRAINING_DATA) |->
                      <<euclidean_distance(v, query, TRAINING_DATA[i]), TRAINING_DATA[i].output>>]))
    IN List([i \in 1..Len(TRAINING_DATA) |-> <<sorted[i][1], TRAINING_DATA[i].output>>])

\* distances: (dist, output) for every training case, sorted by dist
Distances(v, query) ==
    SortByDistance(List([i \in 1..Len(TRAINING_DATA) |->
        <<euclidean_distance(v, query, TRAINING_DATA[i]), TRAINING_DATA[i].output>>]))

\* a slice of exactly k pairs: the places past the end of the list are filled
\* with the last distance and the outcome 0
NearestPadded(distances, k) ==
    [i \in 1..k |-> IF i <= Len(distances) THEN distances[i]
                    ELSE <<distances[Len(distances)][1], 0>>]

\* distances[:k]
Nearest(distances, k) == SubSeq(distances, 1, Min(k, Len(distances)))

\* k_nearest[0][0] < 1e-10: below the resolution of a distance
IsExactMatch(dist) == dist < 1

\* weight = 1.0 / ((dist + 0.01) ** 2), as a fraction (in thousandths) of the
\* weight of the nearest pair; a common factor leaves the average unchanged
WeightConservative(dist, nearest) ==
    LET q == ((nearest + 10) * DS) \div (dist + 10)
    IN (q * q) \div DS

\* weight = 1.0 / (dist + 1e-10), as a fraction of the weight of the nearest pair
WeightFast(dist, nearest) == (nearest * DS) \div dist

Weight(v, dist, nearest) ==
    IF v = "conservative" THEN WeightConservative(dist, nearest) ELSE WeightFast(dist, nearest)

\* the weighted sum divided by the number of pairs instead of by their weights
WeightedSumOverCount(v, k_nearest) ==
    LET w == List([i \in 1..Len(k_nearest) |-> Weight(v, k_nearest[i][1], k_nearest[1][1])])
    IN SumSeq(List([i \in 1..Len(k_nearest) |-> w[i] * k_nearest[i][2]]))
           \div (Len(k_nearest) * DS)

\* weighted_sum / weight_total over k_nearest
WeightedAverage(v, k_nearest) ==
    LET w == List([i \in 1..Len(k_nearest) |-> Weight(v, k_nearest[i][1], k_nearest[1][1])])
        weighted_sum == SumSeq(List([i \in 1..Len(k_nearest) |-> w[i] * k_nearest[i][2]]))
        weight_total == SumSeq(w)
    IN weighted_sum \div weight_total

\* math.sqrt(k) and 1.0 / math.sqrt(k), in thousandths
SqrtK(k) == Isqrt(k * DS * DS)
InvSqrtK(k) == (DS * DS) \div SqrtK(k)

\* the density test reading the bucket of the previous call's query
IsDenseOfPreviousCall(ld) ==
    IF calls = <<>> THEN ld[1] > 10
    ELSE LET q == calls[Len(calls)].query
         IN LocalDensityOf(q[1], q[2], q[3]) > 10

\* the test that picks the ensemble weighting: local_density > 10
IsDense(ld) == ld[1] > 10

\* ensemble_weight of one member
EnsembleWeight(k, ld) == IF IsDense(ld) THEN InvSqrtK(k) ELSE SqrtK(k)

\* k_values = [3, 5, adaptive_k, min(10, adaptive_k + 2)]
KValues(adaptive_k) == <<3, 5, adaptive_k, Min(10, adaptive_k + 2)>>

\* sum(p * w) / total_weight over the members
EnsemblePrediction(v, distances, k_values, ld) ==
    LET p == List([j \in 1..Len(k_values) |-> WeightedAverage(v, Nearest(distances, k_values[j]))])
        w == List([j \in 1..Len(k_values) |-> EnsembleWeight(k_values[j], ld)])
    IN SumSeq(List([j \in 1..Len(k_values) |-> p[j] * w[j]])) \div SumSeq(w)

\* sum(case['output']) / len(TRAINING_DATA)
GlobalAvg == SumSeq(List([i \in 1..Len(TRAINING_DATA) |-> TRAINING_DATA[i].output]))
                \div Len(TRAINING_DATA)

SmoothingThreshold == DS \div 2

\* max() where the code has min()
SmoothingFactorUncapped(min_dist) == Max((3 * DS) \div 10, min_dist \div 10)

\* min(0.3, min_dist / 10), in thousandths
SmoothingFactor(min_dist) == Min((3 * DS) \div 10, min_dist \div 10)

\* (1 - smoothing_factor) * ensemble_prediction + smoothing_factor * global_avg
Smooth(ensemble_prediction, min_dist) ==
    IF min_dist > SmoothingThreshold
    THEN ((DS - SmoothingFactor(min_dist)) * ensemble_prediction
            + SmoothingFactor(min_dist) * GlobalAvg) \div DS
    ELSE ensemble_prediction

NoCall ==
    [query |-> <<>>, outcome |-> "none", value |-> 0, exact |-> FALSE, min_dist |-> 0,
     adaptive_k |-> 0, used_density |-> -1, ensemble |-> 0, smoothing |-> 0, smoothed |-> FALSE]

\* One call knn_predict_conservative(days, miles, receipts): what it returns or
\* raises, with the values of its locals.  ld is the module global
\* local_density: <<>> while the name is unbound, <<n>> once it is bound to n.
knn_predict_conservative(days, miles, receipts, ld) ==
    LET query == Derive(days, miles, receipts)
        distances == Distances("conservative", query)
        adaptive_k == get_adaptive_k(days, miles, receipts)
        k_values == KValues(adaptive_k)
        min_dist == distances[1][1]
        ensemble == EnsemblePrediction("conservative", distances, k_values, ld)
        base == [NoCall EXCEPT !.query = <<days, miles, receipts>>]
    IN IF receipts < 0 THEN [base EXCEPT !.outcome = "ValueError"]
       ELSE IF Len(TRAINING_DATA) = 0
            THEN [base EXCEPT !.outcome = "IndexError", !.adaptive_k = adaptive_k]
       ELSE IF IsExactMatch(min_dist)
            THEN [base EXCEPT !.outcome = "return", !.value = distances[1][2],
                              !.exact = TRUE, !.min_dist = min_dist,
                              !.adaptive_k = adaptive_k]
       ELSE IF ld = <<>>
            THEN [base EXCEPT !.outcome = "NameError", !.min_dist = min_dist,
                              !.adaptive_k = adaptive_k]
       ELSE [base EXCEPT !.outcome = "return",
                         !.value = Smooth(ensemble, min_dist),
                         !.min_dist = min_dist,
                         !.adaptive_k = adaptive_k,
                         !.used_density = ld[1],
                         !.ensemble = ensemble,
                         !.smoothing = IF min_dist > SmoothingThreshold
                                       THEN SmoothingFactor(min_dist) ELSE 0,
                         !.smoothed = (min_dist > SmoothingThreshold)]

\* One call knn_predict(days, miles, receipts, k)
knn_predict(days, miles, receipts, k) ==
    LET query == Derive(days, miles, receipts)
        distances == Distances("fast", query)
        k_nearest == Nearest(distances, k)
        base == [NoCall EXCEPT !.query = <<days, miles, receipts>>]
    IN IF receipts < 0 THEN [base EXCEPT !.outcome = "ValueError"]
       ELSE IF Len(TRAINING_DATA) = 0 THEN [base EXCEPT !.outcome = "IndexError"]
       ELSE IF IsExactMatch(k_nearest[1][1])
            THEN [base EXCEPT !.outcome = "return", !.value = k_nearest[1][2],
                              !.exact = TRUE, !.min_dist = k_nearest[1][1]]
       ELSE [base EXCEPT !.outcome = "return",
                         !.value = WeightedAverage("fast", k_nearest),
                         !.min_dist = k_nearest[1][1]]

----------------------------------------------------------------------------
(* Command line: int(sys.argv[1]), float(sys.argv[2]), float(sys.argv[3]) *)

Digits == {"0", "1", "2", "3", "4", "5", "6", "7", "8", "9"}

DigitValue(c) ==
    CASE c = "0" -> 0 [] c = "1" -> 1 [] c = "2" -> 2 [] c = "3" -> 3 [] c = "4" -> 4
      [] c = "5" -> 5 [] c = "6" -> 6 [] c = "7" -> 7 [] c = "8" -> 8 [] c = "9" -> 9

RECURSIVE DigitsValue(_)
DigitsValue(s) ==
    IF s = <<>> THEN 0 ELSE DigitsValue(SubSeq(s, 1, Len(s) - 1)) * 10 + DigitValue(s[Len(s)])

AllDigits(s) == \A i \in 1..Len(s) : s[i] \in Digits

HasSign(s) == Len(s) > 0 /\ s[1] \in {"-", "+"}
Unsigned(s) == IF HasSign(s) THEN Tail(s) ELSE s
Signed(s, n) == IF HasSign(s) /\ s[1] = "-" THEN -n ELSE n

\* int(s) succeeds on an optional sign followed by one or more digits
IntOk(s) == Len(Unsigned(s)) > 0 /\ AllDigits(Unsigned(s))
IntValue(s) == Signed(s, DigitsValue(Unsigned(s)))

\* position of the decimal point in s, 0 if none
PointAt(s) == IF \E i \in 1..Len(s) : s[i] = "."
              THEN CHOOSE i \in 1..Len(s) : s[i] = "." /\ \A j \in 1..(i - 1) : s[j] # "."
              ELSE 0

IntPart(s) == IF PointAt(s) = 0 THEN s ELSE SubSeq(s, 1, PointAt(s) - 1)
FracPart(s) == IF PointAt(s) = 0 THEN <<>> ELSE SubSeq(s, PointAt(s) + 1, Len(s))

\* float(s) succeeds on an optional sign, digits with at most one point, at
\* least one digit
FloatOk(s) ==
    LET u == Unsigned(s)
    IN /\ AllDigits(IntPart(u)) /\ AllDigits(FracPart(u))
       /\ Len(IntPart(u)) + Len(FracPart(u)) > 0

\* float(s) in hundredths
FloatValue(s) ==
    LET u == Unsigned(s)
        frac == SubSeq(FracPart(u) \o <<"0", "0">>, 1, 2)
    IN Signed(s, DigitsValue(IntPart(u)) * FS + DigitsValue(frac))

\* round(result, 2): thousandths to hundredths, ties to even
Round2(x) ==
    LET c == x \div 10
        r == x % 10
    IN IF r > 5 \/ (r = 5 /\ c % 2 = 1) THEN c + 1 ELSE c

\* max(case[f] for case in TRAINING_DATA)
RECURSIVE MaxOf(_)
MaxOf(s) == IF Len(s) = 1 THEN s[1] ELSE Max(Head(s), MaxOf(Tail(s)))

MaxFeature(f) == MaxOf(List([i \in 1..Len(TRAINING_DATA) |-> TRAINING_DATA[i][f]]))

\* the test with "and" where the code has "or"
OutsideEveryRange(days, miles, receipts) ==
    /\ 2 * days > 3 * MaxFeature("days")
    /\ 2 * miles > 3 * MaxFeature("miles")
    /\ 2 * receipts > 3 * MaxFeature("receipts")

\* days > max_days * 1.5 or miles > max_miles * 1.5 or receipts > max_receipts * 1.5
OutsideTrainingRange(days, miles, receipts) ==
    \/ 2 * days > 3 * MaxFeature("days")
    \/ 2 * miles > 3 * MaxFeature("miles")
    \/ 2 * receipts > 3 * MaxFeature("receipts")

----------------------------------------------------------------------------
(* Bounds and input domains *)

MaxCorpus == 2      \* longest enumerated corpus
MaxCalls == 2       \* direct calls of the predictor in one process (SpecRepeat)

\* records of public_cases.json: days, miles (hundredths), receipts (hundredths),
\* expected_output (thousandths).  The first two share their inputs.
CaseDomain ==
    { [days |-> 1, miles |-> 0,   receipts |-> 0,   output |-> 50000],
      [days |-> 1, miles |-> 0,   receipts |-> 0,   output |-> 70000],
      [days |-> 2, miles |-> 30,  receipts |-> 50,  output |-> 90000],
      [days |-> 1, miles |-> 200, receipts |-> 300, output |-> 60555] }

RECURSIVE SeqsUpTo(_, _)
SeqsUpTo(S, n) ==
    IF n = 0 THEN {<<>>}
    ELSE LET shorter == SeqsUpTo(S, n - 1)
         IN shorter \cup {Append(s, x) : s \in {t \in shorter : Len(t) = n - 1}, x \in S}

\* a corpus with crowded buckets: 11 one-day cases, 4 two-day cases, 5 three-day cases
DenseCase(d, i) ==
    [days |-> d, miles |-> 10 * i, receipts |-> 20 * i + 5 * d,
     output |-> (30 + 10 * d) * PS + 500 * i]

DenseCorpus ==
    [i \in 1..11 |-> DenseCase(1, i)] \o [i \in 1..4 |-> DenseCase(2, i)]
        \o [i \in 1..5 |-> DenseCase(3, i)]

\* three cases with the same inputs, 0.1 miles among them
TripleCorpus ==
    [i \in 1..3 |-> [days |-> 1, miles |-> 10, receipts |-> 0, output |-> (4 + i) * 10 * PS]]

Readable(corpora) == {[status |-> "ok", cases |-> c] : c \in corpora}

CorpusFiles ==
    {[status |-> "missing", cases |-> <<>>], [status |-> "malformed", cases |-> <<>>]}
    \cup Readable(SeqsUpTo(CaseDomain, MaxCorpus) \cup {DenseCorpus, TripleCorpus})

\* command lines that parse: <days> <miles> <receipts>
ValidArgv ==
    { << <<"1">>, <<"0">>, <<"0">> >>,
      << <<"1">>, <<"0", ".", "3">>, <<"0">> >>,
      << <<"3">>, <<"2">>, <<"3">> >>,
      << <<"0">>, <<"0", ".", "3">>, <<"0", ".", "5">> >>,
      << <<"2">>, <<"0", ".", "3">>, <<"0", ".", "5">> >>,
      << <<"5">>, <<"0">>, <<"0">> >>,
      << <<"1">>, <<"-", "0", ".", "5">>, <<"0">> >> }

\* command lines with a wrong argument count or an argument that does not parse
InvalidArgv ==
    { <<>>,
      << <<"1">>, <<"0">> >>,
      << <<"1">>, <<"0">>, <<"0">>, <<"0">> >>,
      << <<"1", ".", "5">>, <<"0">>, <<"0">> >>,
      << <<"x">>, <<"0">>, <<"0">> >>,
      << <<"1">>, <<"x">>, <<"0">> >>,
      << <<"1">>, <<"0">>, <<>> >> }

ArgvDomain == ValidArgv \cup InvalidArgv

ParsedQuery(a) == <<IntValue(a[1]), FloatValue(a[2]), FloatValue(a[3])>>

\* the queries a caller passes to the predictor
QueryDomain == {ParsedQuery(a) : a \in ValidArgv}

----------------------------------------------------------------------------
(* The process *)

InitWith(files, n) ==
    /\ variant \in {"conservative", "fast"}
    /\ mode \in {"script", "import"}
    /\ corpusFile \in files
    /\ budget = n
    /\ argv \in IF mode = "script" THEN ArgvDomain ELSE {<<>>}
    /\ pc = "load"
    /\ TRAINING_DATA = <<>>
    /\ STATS = <<>>
    /\ DENSITY_MAP = <<>>
    /\ local_density = <<>>
    /\ stdout = <<>>
    /\ stderr = <<>>
    /\ exc = "none"
    /\ call = NoCall
    /\ calls = <<>>

\* every corpus file; the caller makes one direct call
Init == InitWith(CorpusFiles, 1)

\* where the module body goes after the last module-level statement
AfterBody == IF mode = "script" THEN "main" ELSE "ready"

\* TRAINING_DATA = load_training_data()
LoadTrainingData ==
    /\ pc = "load"
    /\ IF LoadRaises(corpusFile)
       THEN /\ exc' = LoadException(corpusFile)
            /\ pc' = "failed"
            /\ UNCHANGED TRAINING_DATA
       ELSE /\ TRAINING_DATA' = ProcessedData(corpusFile.cases)
            /\ pc' = "stats"
            /\ UNCHANGED exc
    /\ UNCHANGED <<variant, mode, corpusFile, argv, STATS, DENSITY_MAP, local_density,
                   stdout, stderr, call, calls, budget>>

\* STATS = compute_stats()
ComputeStats ==
    /\ pc = "stats"
    /\ LET r == compute_stats(variant, TRAINING_DATA)
       IN IF r.raised
          THEN /\ exc' = "ZeroDivisionError"
               /\ pc' = "failed"
               /\ UNCHANGED STATS
          ELSE /\ STATS' = r.stats
               /\ pc' = IF variant = "conservative" THEN "density" ELSE AfterBody
               /\ UNCHANGED exc
    /\ UNCHANGED <<variant, mode, corpusFile, argv, TRAINING_DATA, DENSITY_MAP,
                   local_density, stdout, stderr, call, calls, budget>>

\* DENSITY_MAP = compute_density_map()   (conservative)
ComputeDensityMap ==
    /\ pc = "density"
    /\ DENSITY_MAP' = compute_density_map(TRAINING_DATA)
    /\ pc' = IF mode = "script" THEN "mainblock" ELSE "ready"
    /\ UNCHANGED <<variant, mode, corpusFile, argv, TRAINING_DATA, STATS, local_density,
                   stdout, stderr, exc, call, calls, budget>>

\* int(sys.argv[1]), float(sys.argv[2]), float(sys.argv[3]) all succeed
ArgsParse(a) == IntOk(a[1]) /\ FloatOk(a[2]) /\ FloatOk(a[3])

\* if __name__ == '__main__': the block before main()   (conservative)
MainBlock ==
    /\ pc = "mainblock"
    /\ IF Len(argv) = 3
       THEN IF ArgsParse(argv)
            THEN /\ local_density' =
                       <<LocalDensityOf(IntValue(argv[1]), FloatValue(argv[2]),
                                        FloatValue(argv[3]))>>
                 /\ DENSITY_MAP' =
                       DensityAfterLookup({BucketKey(IntValue(argv[1]), FloatValue(argv[2]),
                                                     FloatValue(argv[3]))})
                 /\ pc' = "main"
                 /\ UNCHANGED exc
            ELSE /\ exc' = "ValueError"
                 /\ pc' = "failed"
                 /\ UNCHANGED <<local_density, DENSITY_MAP>>
       ELSE /\ local_density' = <<0>>
            /\ pc' = "main"
            /\ UNCHANGED <<exc, DENSITY_MAP>>
    /\ UNCHANGED <<variant, mode, corpusFile, argv, TRAINING_DATA, STATS,
                   stdout, stderr, call, calls, budget>>

\* the predictor of the running program
Predict(q) ==
    IF variant = "conservative"
    THEN knn_predict_conservative(q[1], q[2], q[3], local_density)
    ELSE knn_predict(q[1], q[2], q[3], 3)

CallEntry(r) == [query |-> r.query, outcome |-> r.outcome, value |-> r.value]

\* DENSITY_MAP after the call: knn_predict_conservative reaches get_adaptive_k
\* once the query is built (math.sqrt(receipts) has not raised)
DensityAfterCall(q) ==
    IF variant = "conservative" /\ q[3] >= 0
    THEN DensityAfterLookup(LookedUpKeys(q[1], q[2], q[3]))
    ELSE DENSITY_MAP

UsageLine == [text |-> "Usage", value |-> 0]
ResultLine(x) == [text |-> "result", value |-> Round2(x)]
WarningLine == [text |-> "# Warning: Input significantly outside training range", value |-> 0]

\* the warning of main(), conservative only: max() of an empty sequence raises
WarningRaises == variant = "conservative" /\ Len(TRAINING_DATA) = 0
Warns(q) == variant = "conservative" /\ OutsideTrainingRange(q[1], q[2], q[3])

\* a main() that also accepts more than three arguments
OneArgTooManyAccepted(a) == Len(a) >= 3

\* the argument count main() accepts: len(sys.argv) == 4
ArgCountOk(a) == Len(a) = 3

\* main()
Main ==
    /\ pc = "main"
    /\ IF ~ArgCountOk(argv)
       THEN /\ stdout' = Append(stdout, UsageLine)
            /\ exc' = "SystemExit1"
            /\ pc' = "exited"
            /\ UNCHANGED <<stderr, call, calls, DENSITY_MAP>>
       ELSE IF ~ArgsParse(argv) \/ WarningRaises
       THEN /\ exc' = "ValueError"
            /\ pc' = "failed"
            /\ UNCHANGED <<stdout, stderr, call, calls, DENSITY_MAP>>
       ELSE LET q == ParsedQuery(argv)
                r == Predict(q)
            IN /\ stderr' = IF Warns(q) THEN Append(stderr, WarningLine) ELSE stderr
               /\ DENSITY_MAP' = DensityAfterCall(q)
               /\ call' = r
               /\ calls' = Append(calls, CallEntry(r))
               /\ IF r.outcome = "return"
                  THEN /\ stdout' = Append(stdout, ResultLine(r.value))
                       /\ pc' = "done"
                       /\ UNCHANGED exc
                  ELSE /\ exc' = r.outcome
                       /\ pc' = "failed"
                       /\ UNCHANGED stdout
    /\ UNCHANGED <<variant, mode, corpusFile, argv, TRAINING_DATA, STATS,
                   local_density, budget>>

\* A caller invokes the predictor directly: after import, or in an interpreter
\* kept alive after main() returned (python3 -i).  An exception goes to the caller.
Call(q) ==
    /\ pc \in {"ready", "done"}
    /\ budget > 0
    /\ budget' = budget - 1
    /\ LET r == Predict(q)
       IN /\ call' = r
          /\ calls' = Append(calls, CallEntry(r))
          /\ DENSITY_MAP' = DensityAfterCall(q)
    /\ UNCHANGED <<variant, mode, corpusFile, argv, pc, TRAINING_DATA, STATS,
                   local_density, stdout, stderr, exc>>

Next ==
    \/ LoadTrainingData
    \/ ComputeStats
    \/ ComputeDensityMap
    \/ MainBlock
    \/ Main
    \/ \E q \in QueryDomain : Call(q)

Spec == Init /\ [][Next]_vars

\* a few corpora, MaxCalls direct calls in one process
RepeatCorpora ==
    { DenseCorpus,
      << [days |-> 1, miles |-> 0, receipts |-> 0, output |-> 50000],
         [days |-> 2, miles |-> 30, receipts |-> 50, output |-> 90000] >> }

InitRepeat == InitWith(Readable(RepeatCorpora), MaxCalls)

SpecRepeat == InitRepeat /\ [][Next]_vars

\* The program is run again, the same way, on the file with its records in
\* another order.  The log of the calls goes on; the end of the first run is
\* entered in it with what that run had computed at module level.
RunEnd ==
    [query |-> <<>>, outcome |-> "exit", value |-> 0,
     stats |-> STATS, density_map |-> DENSITY_MAP, global_avg |-> GlobalAvg]

Reverse(s) == [i \in 1..Len(s) |-> s[Len(s) + 1 - i]]
Rotate(s) == IF s = <<>> THEN s ELSE Append(Tail(s), Head(s))
Reorderings(s) == {Reverse(s), Rotate(s), Rotate(Reverse(s))} \ {s}

Rerun(p) ==
    /\ pc \in {"ready", "done"}
    /\ calls # <<>>
    /\ \A i \in 1..Len(calls) : calls[i].outcome # "exit"
    /\ calls' = Append(calls, RunEnd)
    /\ corpusFile' = [status |-> "ok", cases |-> p]
    /\ pc' = "load"
    /\ TRAINING_DATA' = <<>>
    /\ STATS' = <<>>
    /\ DENSITY_MAP' = <<>>
    /\ local_density' = <<>>
    /\ stdout' = <<>>
    /\ stderr' = <<>>
    /\ exc' = "none"
    /\ call' = NoCall
    /\ budget' = 1
    /\ UNCHANGED <<variant, mode, argv>>

NextReorder ==
    \/ Next
    \/ \E p \in Reorderings(corpusFile.cases) : Rerun(p)

InitReorder == InitWith(Readable(RepeatCorpora), 1)

SpecReorder == InitReorder /\ [][NextReorder]_vars

----------------------------------------------------------------------------
(* Claims *)

Abs(a) == IF a >= 0 THEN a ELSE -a

\* the query of the most recent call has the feature vector of training case i
SameFeatures(q, i) ==
    \A j \in 1..Len(FEATURES) :
        Feat(Derive(q[1], q[2], q[3]), FEATURES[j]) = Feat(TRAINING_DATA[i], FEATURES[j])

Matching(q) == {i \in 1..Len(TRAINING_DATA) : SameFeatures(q, i)}

Earliest(S) == CHOOSE i \in S : \A j \in S : i <= j

\* C1 as stated: a query whose feature vector is that of a training case c
\* returns c's outcome, for every such c, also when several cases share the vector.
C1_EveryMatchingCase ==
    call.outcome # "none" =>
        \A i \in Matching(call.query) :
            call.outcome = "return" /\ call.value = TRAINING_DATA[i].output

\* C1 amended: such a query returns, without blending or smoothing, the outcome
\* of the earliest training case that has its feature vector, and the command
\* line prints that outcome within 0.01.
C1_EarliestMatchingCase ==
    (call.outcome # "none" /\ Matching(call.query) # {}) =>
        LET c == TRAINING_DATA[Earliest(Matching(call.query))]
        IN /\ call.outcome = "return"
           /\ call.exact
           /\ ~call.smoothed
           /\ call.value = c.output
           /\ (pc = "done" /\ Len(calls) = 1) =>
                 /\ Len(stdout) = 1
                 /\ stdout[1].text = "result"
                 /\ Abs(stdout[1].value * 10 - c.output) <= 10

\* an exact match on a feature vector that two training cases with different
\* outcomes share
C1_Witness ==
    /\ call.outcome = "return"
    /\ call.exact
    /\ \E i, j \in Matching(call.query) : TRAINING_DATA[i].output # TRAINING_DATA[j].output

RunAlone(q) ==
    IF variant = "conservative"
    THEN knn_predict_conservative(q[1], q[2], q[3], <<LocalDensityOf(q[1], q[2], q[3])>>)
    ELSE knn_predict(q[1], q[2], q[3], 3)

\* C3 as stated: every call that returns, returns the value its query returns
\* when run alone, the density used for the ensemble weighting being that of the
\* query's own bucket.
C3_ResultOfOwnQuery ==
    call.outcome = "return" =>
        /\ call.value = RunAlone(call.query).value
        /\ call.used_density = RunAlone(call.query).used_density

\* C5 as stated: with a non-empty corpus, a call with non-negative inputs
\* returns a prediction, however the module was started.
C5_NoErrorOutcome ==
    (call.outcome # "none" /\ Len(TRAINING_DATA) > 0 /\ call.query[3] >= 0) =>
        call.outcome = "return"

\* C4: a conservative prediction that is not an exact match lies between the
\* ensemble prediction and the global mean outcome, never farther from the mean
\* than the ensemble prediction; the smoothing factor is at most 0.3, and at a
\* nearest distance of at most 0.5 the ensemble prediction is returned as it is.
C4_SmoothingBounded ==
    (variant = "conservative" /\ call.outcome = "return" /\ ~call.exact) =>
        /\ call.smoothing >= 0
        /\ call.smoothing <= (3 * DS) \div 10
        /\ Min(call.ensemble, GlobalAvg) <= call.value
        /\ call.value <= Max(call.ensemble, GlobalAvg)
        /\ Abs(call.value - GlobalAvg) <= Abs(call.ensemble - GlobalAvg)
        /\ call.smoothed <=> call.min_dist > DS \div 2
        /\ ~call.smoothed => call.value = call.ensemble

\* a smoothed prediction with the factor at its cap, moved off the ensemble value
C4_Witness ==
    /\ variant = "conservative"
    /\ call.outcome = "return"
    /\ call.smoothed
    /\ call.min_dist > 3 * DS
    /\ call.smoothing = (3 * DS) \div 10
    /\ call.value # call.ensemble

\* the module body has run to its end
Initialised == pc \in {"density", "mainblock", "main", "ready", "done", "exited"}

\* C6: a missing, malformed or empty corpus file ends the process during its
\* initialisation with an exception, before any query is answered: a process
\* past its initialisation has a readable, non-empty corpus, and only such a
\* process calls the predictor or prints.
C6_ConfigurationFatal ==
    /\ Initialised => (corpusFile.status = "ok" /\ Len(corpusFile.cases) > 0
                       /\ Len(TRAINING_DATA) = Len(corpusFile.cases))
    /\ (calls # <<>> \/ call # NoCall \/ stdout # <<>> \/ stderr # <<>>) => Initialised
    /\ (corpusFile.status # "ok" \/ Len(corpusFile.cases) = 0) =>
          /\ pc \in {"load", "stats", "failed"}
          /\ pc = "failed" =>
                exc \in {"FileNotFoundError", "JSONDecodeError", "ZeroDivisionError"}

\* an empty corpus file has ended the process in compute_stats
C6_Witness ==
    /\ corpusFile.status = "ok"
    /\ corpusFile.cases = <<>>
    /\ pc = "failed"
    /\ exc = "ZeroDivisionError"
    /\ calls = <<>>
    /\ stdout = <<>>

Exceeds(q) ==
    \/ \A i \in 1..Len(TRAINING_DATA) : 2 * q[1] > 3 * TRAINING_DATA[i].days
    \/ \A i \in 1..Len(TRAINING_DATA) : 2 * q[2] > 3 * TRAINING_DATA[i].miles
    \/ \A i \in 1..Len(TRAINING_DATA) : 2 * q[3] > 3 * TRAINING_DATA[i].receipts

\* the conservative command line has been run to its end on a loaded corpus
\* with a well-formed query that is out of range
OutOfRangeRun ==
    /\ variant = "conservative"
    /\ mode = "script"
    /\ argv \in ValidArgv
    /\ Len(TRAINING_DATA) > 0
    /\ pc \in {"done", "failed", "exited"}
    /\ Exceeds(ParsedQuery(argv))

Indexed == variant = "conservative" /\ pc \in {"mainblock", "main", "ready", "done"}

\* local density, neighbourhood density and get_adaptive_k of every query
DensityProfile ==
    { <<LocalDensityOf(q[1], q[2], q[3]), NearbyDensityOf(q[1], q[2], q[3]),
        get_adaptive_k(q[1], q[2], q[3])>> : q \in QueryDomain }

\* C9: for two queries against one density index, the query with the larger or
\* equal local density and the larger or equal neighbourhood density gets a
\* neighbour count that is smaller or equal; a call uses the count of its query.
C9_DenserNeverMoreNeighbours ==
    Indexed =>
        /\ \A a, b \in DensityProfile :
              (a[1] >= b[1] /\ a[2] >= b[2]) => a[3] <= b[3]
        /\ call.outcome # "none" =>
              call.adaptive_k = get_adaptive_k(call.query[1], call.query[2], call.query[3])

\* an index in which the queries get all four neighbour counts, and a call made
C9_Witness ==
    /\ Indexed
    /\ {p[3] : p \in DensityProfile} = {3, 5, 7, 10}
    /\ \E a, b \in DensityProfile : a[1] > b[1] /\ a[2] > b[2] /\ a[3] < b[3]
    /\ call.outcome = "return"

\* the module body has just computed STATS
StatsFresh == STATS # <<>> /\ calls = <<>> /\ pc \in {"main", "ready"}

\* the feature vectors of the queries and of the training cases
Vectors ==
    {Derive(q[1], q[2], q[3]) : q \in QueryDomain}
        \cup {TRAINING_DATA[i] : i \in 1..Len(TRAINING_DATA)}

NormalizedVector(a) ==
    [j \in 1..Len(FEATURES) |-> normalize_value(Feat(a, FEATURES[j]), FEATURES[j])]

\* C10: in both variants the distance of two feature vectors is non-negative,
\* is the same in both directions, and is 0 exactly when their normalized
\* vectors are identical.
C10_MetricLaws ==
    StatsFresh =>
        \A a, b \in Vectors :
            LET d == euclidean_distance(variant, a, b)
            IN /\ d >= 0
               /\ d = euclidean_distance(variant, b, a)
               /\ d = 0 <=> NormalizedVector(a) \o <<>> = NormalizedVector(b) \o <<>>

\* a query at distance 0 of one training case and at a positive distance of another
C10_Witness ==
    /\ StatsFresh
    /\ \E q \in QueryDomain : \E i, j \in 1..Len(TRAINING_DATA) :
          /\ euclidean_distance(variant, Derive(q[1], q[2], q[3]), TRAINING_DATA[i]) = 0
          /\ euclidean_distance(variant, Derive(q[1], q[2], q[3]), TRAINING_DATA[j]) > 0
          /\ euclidean_distance(variant, TRAINING_DATA[j], Derive(q[1], q[2], q[3])) > 0

\* the largest neighbour count the predictor uses for q
LargestK(q) ==
    IF variant = "conservative" THEN MaxOf(KValues(get_adaptive_k(q[1], q[2], q[3]))) ELSE 3

\* no two of the cases that can be among the nearest LargestK(q) are at the
\* same distance of q
SelectableTieFree(q) ==
    LET d == Distances(variant, Derive(q[1], q[2], q[3]))
        m == Min(LargestK(q) + 1, Len(d))
    IN \A a, b \in 1..m : a < b => d[a][1] # d[b][1]

\* C11: run on the corpus file with its records in another order, the program
\* computes the same statistics, density index and global mean, and returns the
\* same prediction for every query that has no tie among the distances of the
\* cases it can select.
C11_OrderInsensitive ==
    \A k \in 1..Len(calls) :
        calls[k].outcome = "exit" =>
            /\ STATS # <<>> => (STATS = calls[k].stats /\ GlobalAvg = calls[k].global_avg)
            /\ pc \in {"mainblock", "main", "ready", "done"} =>
                  DENSITY_MAP = calls[k].density_map
            /\ \A i \in 1..(k - 1), j \in (k + 1)..Len(calls) :
                  (calls[i].query = calls[j].query /\ SelectableTieFree(calls[j].query)) =>
                      /\ calls[i].outcome = calls[j].outcome
                      /\ calls[i].value = calls[j].value

\* a blended prediction over a corpus of more cases than neighbours, repeated
\* on the reordered corpus
C11_Witness ==
    /\ Len(TRAINING_DATA) > 10
    /\ call.outcome = "return"
    /\ ~call.exact
    /\ SelectableTieFree(call.query)
    /\ \E k \in 1..Len(calls) :
          /\ calls[k].outcome = "exit"
          /\ \E i \in 1..(k - 1) : calls[i].query = call.query /\ calls[i].outcome = "return"

\* the module-level state is built
Constructed == pc \in {"mainblock", "main", "ready", "done", "exited"}

\* the density index as compute_density_map builds it from the corpus
BuiltIndex == IF variant = "conservative" THEN compute_density_map(TRAINING_DATA) ELSE <<>>

\* C12: once initialised, the training cases, the normalization statistics and
\* the density index stay what the module body computed from the corpus file,
\* whatever queries are answered; a bucket looked up by a query and absent from
\* the index counts 0 and is still absent after the query.
C12_ReadOnlyState ==
    Constructed =>
        /\ TRAINING_DATA = ProcessedData(corpusFile.cases)
        /\ STATS = compute_stats(variant, TRAINING_DATA).stats
        /\ pc # "mainblock" => DENSITY_MAP = BuiltIndex
        /\ \A i \in 1..Len(calls) :
              (variant = "conservative" /\ calls[i].outcome # "ValueError") =>
                  \A key \in LookedUpKeys(calls[i].query[1], calls[i].query[2],
                                          calls[i].query[3]) :
                      key \notin DOMAIN BuiltIndex =>
                          key \notin DOMAIN DENSITY_MAP /\ DensityGet(key) = 0

\* two queries answered, the second one blended, in a bucket that is not indexed
C12_Witness ==
    /\ variant = "conservative"
    /\ Len(calls) = 2
    /\ calls[1].outcome = "return"
    /\ call.outcome = "return"
    /\ ~call.exact
    /\ DOMAIN DENSITY_MAP # {}
    /\ BucketKey(call.query[1], call.query[2], call.query[3]) \notin DOMAIN DENSITY_MAP

\* the values of one feature over the training cases
FeatureValues(feat) == [i \in 1..Len(TRAINING_DATA) |-> Feat(TRAINING_DATA[i], feat)]

\* the population variance of the feature is 0: all its values are the same
ZeroVariance(feat) ==
    \A i, j \in 1..Len(TRAINING_DATA) : FeatureValues(feat)[i] = FeatureValues(feat)[j]

\* C13: for a non-empty corpus and each of the 7 features, the stored std is
\* 1.0 when the population variance of the feature is 0 and, in the
\* conservative variant, never below 0.1.
C13_StdOfZeroVarianceIsOne ==
    (STATS # <<>> /\ Len(TRAINING_DATA) > 0) =>
        \A j \in 1..Len(FEATURES) :
            /\ ZeroVariance(FEATURES[j]) => STATS[FEATURES[j]].std = FS * FS
            /\ variant = "conservative" => STATS[FEATURES[j]].std >= (FS * FS) \div 10

\* floor(x / w) * w for x in hundredths and a bucket width w in whole units
FloorBucket(x, w) == (x \div (w * FS)) * w

\* the bucket key with floor
FloorKey(days, miles, receipts) == <<days, FloorBucket(miles, 100), FloorBucket(receipts, 200)>>

\* the number of corpus cases whose floor key is key
FloorCount(key) ==
    Cardinality({i \in 1..Len(TRAINING_DATA) :
        FloorKey(TRAINING_DATA[i].days, TRAINING_DATA[i].miles, TRAINING_DATA[i].receipts) = key})

\* the counts of the 27 buckets at days +-1, distance +-100, expense +-200 around key
FloorNeighbourhood(key) ==
    SumSeq(List([a \in 1..27 |->
        FloorCount(<<key[1] + (((a - 1) \div 9) - 1),
                     key[2] + ((((a - 1) \div 3) % 3) - 1) * 100,
                     key[3] + (((a - 1) % 3) - 1) * 200>>)]))

\* C14: the local density the program uses for a query is the number of corpus
\* cases with the query's bucket key (days, floor(distance/100)*100,
\* floor(expense/200)*200), and its neighbourhood density is the sum of the
\* counts of the 27 buckets around that key: the density bound from the command
\* line and the neighbour count of every call are the ones these two give.
C14_FloorBucketDensities ==
    (variant = "conservative" /\ pc \in {"main", "ready", "done"}) =>
        /\ (local_density # <<>> /\ Len(argv) = 3) =>
              local_density[1] =
                  FloorCount(FloorKey(ParsedQuery(argv)[1], ParsedQuery(argv)[2],
                                      ParsedQuery(argv)[3]))
        /\ call.outcome \notin {"none", "ValueError"} =>
              call.adaptive_k =
                  AdaptiveKOf(FloorCount(FloorKey(call.query[1], call.query[2], call.query[3])),
                              FloorNeighbourhood(FloorKey(call.query[1], call.query[2],
                                                          call.query[3])))

\* C15: get_adaptive_k returns 3 when the local density is at least 5;
\* otherwise 5 when the neighbourhood density is at least 20; otherwise 7 when
\* it is at least 10; otherwise 10; and nothing else.  This holds for every
\* query against every index, and for the neighbour count of every call.
C15_AdaptiveNeighbourCount ==
    Indexed =>
        /\ \A q \in QueryDomain :
              LET local == LocalDensityOf(q[1], q[2], q[3])
                  nearby == NearbyDensityOf(q[1], q[2], q[3])
                  k == get_adaptive_k(q[1], q[2], q[3])
              IN /\ k \in {3, 5, 7, 10}
                 /\ k = 3 <=> local >= 5
                 /\ k = 5 <=> (local < 5 /\ nearby >= 20)
                 /\ k = 7 <=> (local < 5 /\ nearby < 20 /\ nearby >= 10)
                 /\ k = 10 <=> (local < 5 /\ nearby < 10)
        /\ call.outcome \notin {"none", "ValueError"} =>
              /\ call.adaptive_k \in {3, 5, 7, 10}
              /\ call.adaptive_k = 3 <=>
                    LocalDensityOf(call.query[1], call.query[2], call.query[3]) >= 5

\* a call that got 5 neighbours with 4 cases in its bucket and at least 20 around,
\* against an index in which a bucket of exactly 5 cases gets 3
C15_Witness ==
    /\ Indexed
    /\ call.outcome = "return"
    /\ call.adaptive_k = 5
    /\ LocalDensityOf(call.query[1], call.query[2], call.query[3]) = 4
    /\ NearbyDensityOf(call.query[1], call.query[2], call.query[3]) >= 20
    /\ \E q \in QueryDomain :
          LocalDensityOf(q[1], q[2], q[3]) = 5 /\ get_adaptive_k(q[1], q[2], q[3]) = 3
    /\ \E q \in QueryDomain : get_adaptive_k(q[1], q[2], q[3]) = 7
    /\ \E q \in QueryDomain : get_adaptive_k(q[1], q[2], q[3]) = 10

\* the candidates of k_values, each distinct value once, in order of first occurrence
RECURSIVE DistinctK(_)
DistinctK(k_values) ==
    IF k_values = <<>> THEN <<>>
    ELSE LET front == DistinctK(SubSeq(k_values, 1, Len(k_values) - 1))
             last == k_values[Len(k_values)]
         IN IF \E j \in 1..Len(front) : front[j] = last THEN front ELSE Append(front, last)

\* a conservative call that returned a blended value
Blended(c) == variant = "conservative" /\ c.outcome = "return" /\ ~c.exact

\* C16: for a query that is not an exact match, the candidates 3, 5, k_adaptive
\* and min(10, k_adaptive + 2) all lie in 3..10, and the ensemble prediction is
\* the blend in which every distinct candidate k has one prediction: a k that
\* occurs twice among the four is not counted twice.
C16_EachCandidateOnce ==
    Blended(call) =>
        /\ \A j \in 1..4 : KValues(call.adaptive_k)[j] \in 3..10
        /\ call.ensemble =
              EnsemblePrediction("conservative",
                  Distances("conservative",
                            Derive(call.query[1], call.query[2], call.query[3])),
                  DistinctK(KValues(call.adaptive_k)), <<call.used_density>>)

\* C17: the ensemble weight of a candidate k is 1/sqrt(k) in a dense region, so
\* that a smaller k weighs strictly more, and sqrt(k) in a sparse one, so that
\* a larger k weighs strictly more; and a blended call weights as dense
\* exactly when its adaptive neighbour count is 3.
C17_DenseWeightingIffThreeNeighbours ==
    Blended(call) =>
        /\ \A k1, k2 \in 3..10 :
              k1 < k2 =>
                  /\ EnsembleWeight(k1, <<11>>) = InvSqrtK(k1)
                  /\ EnsembleWeight(k1, <<11>>) > EnsembleWeight(k2, <<11>>)
                  /\ EnsembleWeight(k1, <<0>>) = SqrtK(k1)
                  /\ EnsembleWeight(k1, <<0>>) < EnsembleWeight(k2, <<0>>)
        /\ IsDense(<<call.used_density>>) <=> call.adaptive_k = 3

\* the distance of the query q of the running variant to every training case,
\* in corpus order
CorpusDistances(q) ==
    List([i \in 1..Len(TRAINING_DATA) |->
        euclidean_distance(variant, Derive(q[1], q[2], q[3]), TRAINING_DATA[i])])

\* the corpus index at position pos under the order (distance, corpus index)
RankedIndex(d, pos) ==
    CHOOSE i \in 1..Len(d) :
        Cardinality({j \in 1..Len(d) : d[j] < d[i] \/ (d[j] = d[i] /\ j < i)}) = pos - 1

\* C18: the sorted (distance, outcome) pairs of a call are in non-decreasing
\* distance order and are the corpus cases in the order (distance, corpus
\* index), so that the k nearest are the first k cases of that order; an exact
\* match returns the outcome of the earliest corpus case at distance 0.
C18_RankedByDistanceThenIndex ==
    (call.outcome \notin {"none", "ValueError"} /\ Len(TRAINING_DATA) > 0) =>
        LET d == CorpusDistances(call.query)
            sorted == Distances(variant, Derive(call.query[1], call.query[2], call.query[3]))
        IN /\ Len(sorted) = Len(TRAINING_DATA)
           /\ \A pos \in 1..(Len(sorted) - 1) : sorted[pos][1] <= sorted[pos + 1][1]
           /\ \A pos \in 1..Len(sorted) :
                 sorted[pos] = <<d[RankedIndex(d, pos)],
                                 TRAINING_DATA[RankedIndex(d, pos)].output>>
           /\ \A k \in 1..10 : \A pos \in 1..Len(Nearest(sorted, k)) :
                 Nearest(sorted, k)[pos][2] = TRAINING_DATA[RankedIndex(d, pos)].output
           /\ (\E i \in 1..Len(d) : d[i] = 0) =>
                 /\ call.exact
                 /\ call.value =
                       TRAINING_DATA[CHOOSE i \in 1..Len(d) :
                           d[i] = 0 /\ \A j \in 1..Len(d) : d[j] = 0 => i <= j].output

\* a blended call whose nearest cases are at one and the same positive distance
\* and have different outcomes
C18_Witness ==
    /\ call.outcome = "return"
    /\ ~call.exact
    /\ Len(TRAINING_DATA) >= 3
    /\ \E i, j \in 1..Len(TRAINING_DATA) :
          /\ i < j
          /\ CorpusDistances(call.query)[i] = call.min_dist
          /\ CorpusDistances(call.query)[j] = call.min_dist
          /\ TRAINING_DATA[i].output # TRAINING_DATA[j].output

Lowest(S) == CHOOSE x \in S : \A y \in S : x <= y
Highest(S) == CHOOSE x \in S : \A y \in S : x >= y

\* the outcomes of a list of (distance, outcome) pairs
OutcomesOf(pairs) == {pairs[i][2] : i \in 1..Len(pairs)}

\* the neighbour counts a call of the running variant averages over
CandidatesOf(c) ==
    IF variant = "conservative"
    THEN {KValues(c.adaptive_k)[j] : j \in 1..4}
    ELSE {3}

\* C19: the value a call returns lies between the smallest and the largest
\* outcome of the corpus; for a call that is not an exact match the weight
\* total of every candidate is strictly positive, no weight is negative and the
\* nearest case's weight is positive, the ensemble weights and their total are
\* strictly positive, and the ensemble prediction before smoothing lies between
\* the smallest and the largest outcome of the 10 nearest cases.
C19_PredictionWithinOutcomes ==
    (call.outcome = "return" /\ Len(TRAINING_DATA) > 0) =>
        LET sorted == Distances(variant, Derive(call.query[1], call.query[2], call.query[3]))
        IN /\ call.value >= Lowest(OutcomesOf(sorted))
           /\ call.value <= Highest(OutcomesOf(sorted))
           /\ ~call.exact =>
                 \A k \in CandidatesOf(call) :
                     LET k_nearest == Nearest(sorted, k)
                         w == List([i \in 1..Len(k_nearest) |->
                                   Weight(variant, k_nearest[i][1], k_nearest[1][1])])
                     IN /\ SumSeq(w) > 0
                        /\ w[1] > 0
                        /\ \A i \in 1..Len(w) : w[i] >= 0
                        /\ WeightedAverage(variant, k_nearest) >= Lowest(OutcomesOf(k_nearest))
                        /\ WeightedAverage(variant, k_nearest) <= Highest(OutcomesOf(k_nearest))
           /\ Blended(call) =>
                 /\ \A k \in CandidatesOf(call) :
                       EnsembleWeight(k, <<call.used_density>>) > 0
                 /\ call.ensemble >= Lowest(OutcomesOf(Nearest(sorted, 10)))
                 /\ call.ensemble <= Highest(OutcomesOf(Nearest(sorted, 10)))

\* a smoothed call against more than 10 cases whose 10 nearest do not hold the
\* largest outcome of the corpus, with the ensemble prediction strictly inside
\* the outcomes of the 10 nearest
C19_Witness ==
    /\ Blended(call)
    /\ call.smoothed
    /\ Len(TRAINING_DATA) > 10
    /\ LET sorted == Distances(variant, Derive(call.query[1], call.query[2], call.query[3]))
       IN /\ Highest(OutcomesOf(Nearest(sorted, 10))) < Highest(OutcomesOf(sorted))
          /\ call.ensemble > Lowest(OutcomesOf(Nearest(sorted, 10)))
          /\ call.ensemble < Highest(OutcomesOf(Nearest(sorted, 10)))
          /\ call.value # call.ensemble

====
